---- MODULE Spec2Model ----
(***************************************************************************)
(* Model of the Setup notebook of the Delta Live Tables workshop:          *)
(* namespace resolution, catalog/schema/volume provisioning, the six       *)
(* dbldatagen generator definitions and the six build-and-write cells.     *)
(*                                                                         *)
(* Strings that the code transforms are sequences of one-character         *)
(* strings.  A DataGenerator is an object on a heap (a sequence of         *)
(* objects, a reference is an index): its builder methods change the       *)
(* object they are called on and return that same reference.               *)
(***************************************************************************)
EXTENDS Integers, Sequences, FiniteSets, TLC

\* ------------------------------------------------------------------ bounds

\* longest caller identity drawn for the namespace resolver
MaxLen == 3
\* number of times the whole notebook is run against the same namespace
MaxRuns == 2

\* ------------------------------------------------------------- characters

Digits == <<"0","1","2","3","4","5","6","7","8","9">>
Lower == <<"a","b","c","d","e","f","g","h","i","j","k","l","m",
           "n","o","p","q","r","s","t","u","v","w","x","y","z">>
Upper == <<"A","B","C","D","E","F","G","H","I","J","K","L","M",
           "N","O","P","Q","R","S","T","U","V","W","X","Y","Z">>

Range(s) == {s[i] : i \in DOMAIN s}

\* the character class 0-9a-zA-Z
AlnumClass == Range(Digits) \cup Range(Lower) \cup Range(Upper)

\* characters the drawn caller identities are made of
Alphabet == {"a", "Z", "7", "_", ".", "@"}

IndexOf(s, c) == CHOOSE i \in DOMAIN s : s[i] = c
ToUpper(c) == IF c \in Range(Lower) THEN Upper[IndexOf(Lower, c)] ELSE c
ToLower(c) == IF c \in Range(Upper) THEN Lower[IndexOf(Upper, c)] ELSE c

\* all sequences over S of length at most n
SeqsUpTo(S, n) == UNION {[1..k -> S] : k \in 0..n}

\* ------------------------------------------------------ namespace resolver

\* [^0-9a-zA-Z]: matches exactly one character outside the class
NonAlnum(c) == c \notin AlnumClass

\* re.sub(pattern, repl, s) for a pattern matching single characters:
\* every matching character is replaced by repl, the others are kept
ReSubBroken(s, repl) ==
  SelectSeq(s, LAMBDA c : ~NonAlnum(c))
ReSub(s, repl) ==
  [i \in DOMAIN s |-> IF NonAlnum(s[i]) THEN repl ELSE s[i]]

\* username = re.sub('[^0-9a-zA-Z]', '_', <user tag>)
Username(user) == ReSub(user, "_")

\* ------------------------------------------------------------- timestamps

LeapsBefore(y) == ((y - 1) \div 4) - ((y - 1) \div 100) + ((y - 1) \div 400)
IsLeap(y) == (y % 4 = 0 /\ y % 100 # 0) \/ y % 400 = 0
DaysBeforeMonth == <<0, 31, 59, 90, 120, 151, 181, 212, 243, 273, 304, 334>>

\* a 'YYYY-MM-DD hh:mm:ss' literal as seconds since 2000-01-01 00:00:00
Timestamp(y, mo, d, hh, mi, ss) ==
  LET days == 365 * (y - 2000) + (LeapsBefore(y) - LeapsBefore(2000))
              + DaysBeforeMonth[mo] + (IF mo > 2 /\ IsLeap(y) THEN 1 ELSE 0)
              + (d - 1)
  IN  ((days * 24 + hh) * 60 + mi) * 60 + ss

\* ---------------------------------------------------------- DataGenerator
\* A heap is a sequence of generator objects; a reference is an index.
\* A call result is [h |-> heap after the call, ref |-> returned reference].
\* Absent options (None) are empty sequences; step and decimal bounds are
\* kept as written, step in hundredths (step=1 is 100, step=0.01 is 1);
\* percentNulls is in percent.

\* the keyword defaults of withColumn
Col(name, type) ==
  [name |-> name, type |-> type, omit |-> FALSE, implicit |-> FALSE,
   minValue |-> <<>>, maxValue |-> <<>>, step |-> 100, values |-> <<>>,
   random |-> FALSE, percentNulls |-> 0, text |-> "", expr |-> ""]

\* the seed column every generator starts with: implicit and omitted
SeedColumn == [Col("id", "long") EXCEPT !.omit = TRUE, !.implicit = TRUE]

\* dg.DataGenerator(rows=...): a new object; startingId defaults to 0
DataGenerator(h, rows) ==
  [h |-> Append(h, [rowCount |-> rows, startingId |-> 0,
                    inferredSchemaFields |-> <<"id">>,
                    allColumnSpecs |-> <<SeedColumn>>]),
   ref |-> Len(h) + 1]

\* .withIdOutput(): the seed column is no longer omitted; returns self
withIdOutput(c) ==
  [h |-> [c.h EXCEPT ![c.ref].allColumnSpecs =
            [i \in DOMAIN @ |-> IF @[i].name = "id"
                                THEN [@[i] EXCEPT !.omit = FALSE] ELSE @[i]]],
   ref |-> c.ref]

\* .withColumn(...): the column's definition replaces any definition of the
\* same name and goes last, its name is appended to the declared fields;
\* the object is changed in place and the call returns self
withColumn(c, col) ==
  [h |-> [c.h EXCEPT
            ![c.ref].allColumnSpecs =
               Append(SelectSeq(@, LAMBDA x : x.name # col.name), col),
            ![c.ref].inferredSchemaFields = Append(@, col.name)],
   ref |-> c.ref]

\* .withRowCount(rc): sets the row count of the object it is called on and
\* returns self
withRowCount(c, rc) ==
  [h |-> [c.h EXCEPT ![c.ref].rowCount = rc], ref |-> c.ref]

\* the definition of the column named n in generator g
ColumnSpec(g, n) ==
  LET i == CHOOSE i \in DOMAIN g.allColumnSpecs : g.allColumnSpecs[i].name = n
  IN  g.allColumnSpecs[i]

\* names of the columns a build outputs: the declared fields, in order,
\* whose definition is not omitted
OutputColumnNames(g) ==
  SelectSeq(g.inferredSchemaFields, LAMBDA n : ~ColumnSpec(g, n).omit)

\* ------------------------------------------ the six generator definitions

customers_generator(h) ==
  LET g0 == withIdOutput(DataGenerator(h, 100))
      g1 == withColumn(g0, [Col("customer_name", "string") EXCEPT
                              !.percentNulls = 1, !.text = "name_generator"])
      g2 == withColumn(g1, [Col("billing_address", "string") EXCEPT
                              !.percentNulls = 1, !.text = "address_generator"])
      g3 == withColumn(g2, [Col("mailing_address", "string") EXCEPT
                              !.percentNulls = 20, !.text = "address_generator"])
      g4 == withColumn(g3, [Col("phone_number", "string") EXCEPT
                              !.percentNulls = 20, !.text = "phone_generator"])
      g5 == withColumn(g4, [Col("email", "string") EXCEPT
                              !.percentNulls = 10, !.expr = "customer_name"])
      g6 == withColumn(g5, [Col("payment_terms", "string") EXCEPT
                              !.values = <<"DUE_ON_RECEIPT", "NET_30", "NET_60",
                                           "NET_90", "NET_120">>,
                              !.random = TRUE])
  IN  withColumn(g6, [Col("balance_limit", "decimal(10,2)") EXCEPT
                        !.percentNulls = 1, !.minValue = <<1000>>,
                        !.maxValue = <<100000>>, !.random = TRUE])

suppliers_cdc_generator(h) ==
  LET g0 == DataGenerator(h, 20)
      g1 == withColumn(g0, [Col("update_type", "string") EXCEPT
                              !.values = <<"INSERT", "UPDATE", "DELETE">>,
                              !.random = TRUE])
      g2 == withColumn(g1, [Col("update_date", "timestamp") EXCEPT
                              !.minValue = <<Timestamp(2024, 1, 1, 0, 0, 0)>>,
                              !.maxValue = <<Timestamp(2024, 12, 31, 11, 59, 59)>>,
                              !.random = TRUE])
      g3 == withColumn(g2, [Col("id", "integer") EXCEPT
                              !.minValue = <<1>>, !.maxValue = <<100>>,
                              !.random = TRUE])
      g4 == withColumn(g3, [Col("supplier_name", "string") EXCEPT
                              !.percentNulls = 1, !.text = "name_generator"])
      g5 == withColumn(g4, [Col("billing_address", "string") EXCEPT
                              !.percentNulls = 1, !.text = "address_generator"])
      g6 == withColumn(g5, [Col("mailing_address", "string") EXCEPT
                              !.percentNulls = 20, !.text = "address_generator"])
      g7 == withColumn(g6, [Col("phone_number", "string") EXCEPT
                              !.percentNulls = 20, !.text = "phone_generator"])
  IN  withColumn(g7, [Col("email", "string") EXCEPT
                        !.percentNulls = 10, !.expr = "supplier_name"])

items_generator(h) ==
  LET g0 == withIdOutput(DataGenerator(h, 1000))
      g1 == withColumn(g0, [Col("description", "string") EXCEPT
                              !.percentNulls = 10, !.text = "desc_generator"])
  IN  withColumn(g1, [Col("unit_price", "decimal(10,2)") EXCEPT
                        !.percentNulls = 1, !.minValue = <<1>>,
                        !.maxValue = <<500>>, !.step = 1, !.random = TRUE])

\* the columns orders_generator and orders_new_generator declare alike
OrderColumns(g0) ==
  LET g1 == withColumn(g0, [Col("order_date", "timestamp") EXCEPT
                              !.minValue = <<Timestamp(2020, 1, 1, 0, 0, 0)>>,
                              !.maxValue = <<Timestamp(2024, 1, 1, 0, 0, 0)>>,
                              !.random = TRUE])
      g2 == withColumn(g1, [Col("description", "string") EXCEPT
                              !.percentNulls = 10, !.text = "desc_generator"])
      g3 == withColumn(g2, [Col("customer_id", "integer") EXCEPT
                              !.minValue = <<1>>, !.maxValue = <<100>>,
                              !.random = TRUE])
      g4 == withColumn(g3, [Col("item_id", "integer") EXCEPT
                              !.minValue = <<1>>, !.maxValue = <<1000>>,
                              !.random = TRUE])
  IN  withColumn(g4, [Col("qty_ordered", "integer") EXCEPT
                        !.minValue = <<1>>, !.maxValue = <<100>>,
                        !.random = TRUE])

orders_generator(h) ==
  withColumn(OrderColumns(withIdOutput(DataGenerator(h, 10000))),
             [Col("business_unit", "string") EXCEPT
                !.values = <<"retail", "wholesale">>, !.random = TRUE])

orders_new_generator(h) ==
  withColumn(OrderColumns(withIdOutput(DataGenerator(h, 1000))),
             [Col("business_unit", "string") EXCEPT
                !.values = <<"direct_to_consumer">>])

\* orders_generator.withRowCount(100000).withColumn('order_date', ...):
\* both calls act on the object orders references
orders_backlog_generator(orders) ==
  withColumn(withRowCount(orders, 100000),
             [Col("order_date", "timestamp") EXCEPT
                !.minValue = <<Timestamp(2000, 1, 1, 0, 0, 0)>>,
                !.maxValue = <<Timestamp(2020, 1, 1, 0, 0, 0)>>,
                !.random = TRUE])

GeneratorNames == {"customers", "suppliers_cdc", "items", "orders",
                   "orders_new", "orders_backlog"}

\* the generator-definition cell run on heap h: the heap it leaves and the
\* object each of the six variables references
DefineGenerators(h) ==
  LET c == customers_generator(h)
      s == suppliers_cdc_generator(c.h)
      i == items_generator(s.h)
      o == orders_generator(i.h)
      n == orders_new_generator(o.h)
      b == orders_backlog_generator([h |-> n.h, ref |-> o.ref])
  IN  [h |-> b.h,
       ref |-> [d \in GeneratorNames |->
                  CASE d = "customers" -> c.ref
                    [] d = "suppliers_cdc" -> s.ref
                    [] d = "items" -> i.ref
                    [] d = "orders" -> o.ref
                    [] d = "orders_new" -> n.ref
                    [] d = "orders_backlog" -> b.ref]]

\* ------------------------------------------------------------------ state

VARIABLES
  tags,      \* the execution context's tags: <<>> or <<the "user" entry>>
  username,  \* the notebook variable username: <<>> while unbound, else <<name>>
  objects,   \* the catalogs, schemas and volumes that exist on the platform
  heap,      \* the generator objects of the Python session
  gens,      \* the six generator variables: <<>> while unbound, else <<refs>>
  files,     \* the dataset directories under the volume, by path
  pc,        \* index in Cells of the next cell to run
  executed,  \* the cells of this run that completed, in order
  error,     \* "" or the cause the run stopped with
  run,       \* number of the current run of the notebook
  row        \* the generated cell last observed (row-generation model)

vars == <<tags, username, objects, heap, gens, files, pc, executed, error,
          run, row>>

\* the cells of Setup.py in notebook order
Cells == <<"resolve", "catalog", "schema", "volume", "define",
           "customers", "suppliers_cdc", "items", "orders", "orders_new",
           "orders_backlog">>

\* the caller identities a run is checked with
Users == {<<"j", ".", "D", "@", "x", "1">>, <<"a", "Z", "7">>}

NoRow == [dataset |-> "", column |-> "", source |-> <<>>, nulled |-> FALSE,
          value |-> [isNull |-> TRUE, v |-> <<>>]]

Init ==
  /\ tags \in {<<>>} \cup {<<u>> : u \in Users}
  /\ username = <<>>
  /\ objects = {}
  /\ heap = <<>>
  /\ gens = <<>>
  /\ files = <<>>
  /\ pc = 1
  /\ executed = <<>>
  /\ error = ""
  /\ run = 1
  /\ row = NoRow

\* ---------------------------------------------------------- cell plumbing

\* a cell runs when it is the next one and no earlier cell of the run raised
AtCell(cell) == pc <= Len(Cells) /\ Cells[pc] = cell
RunningAfterError(cell) == AtCell(cell)
Running(cell) == error = "" /\ AtCell(cell)

\* the cell completed: the notebook moves to the next cell
Proceed ==
  /\ pc' = pc + 1
  /\ executed' = Append(executed, Cells[pc])
  /\ error' = error

\* the cell raised: the run stops there
Abort(cause) ==
  /\ error' = cause
  /\ UNCHANGED <<pc, executed>>

\* ------------------------------------------------------ resolve namespace

\* getContext().tags().apply("user"): the entry, or an exception when the
\* context has none
ContextUserOrDefault(t) ==
  [raised |-> FALSE, value |-> IF t = <<>> THEN <<"u">> ELSE t[1]]
ContextUser(t) ==
  IF t = <<>> THEN [raised |-> TRUE, value |-> <<>>]
  ELSE [raised |-> FALSE, value |-> t[1]]

ResolveNamespace ==
  /\ Running("resolve")
  /\ LET u == ContextUser(tags)
     IN  IF u.raised
         THEN Abort("identity") /\ UNCHANGED username
         ELSE username' = <<Username(u.value)>> /\ Proceed
  /\ UNCHANGED <<tags, objects, heap, gens, files, run, row>>

\* ------------------------------------------------------------ provisioning

CatalogName(u) == <<"dlt_workshop_">> \o u
SchemaName(u) == CatalogName(u) \o <<".finance">>
VolumeName(u) == SchemaName(u) \o <<"._files">>

\* CREATE <kind> IF NOT EXISTS <name>: nothing happens when the object
\* exists; the statement never raises because of it
CreateOrRaise(objs, kind, name) ==
  LET o == [kind |-> kind, name |-> name]
  IN  IF o \in objs THEN [raised |-> TRUE, objs |-> objs]
      ELSE [raised |-> FALSE, objs |-> objs \cup {o}]
CreateIfNotExists(objs, kind, name) ==
  [raised |-> FALSE, objs |-> objs \cup {[kind |-> kind, name |-> name]}]

\* a spark.sql provisioning cell; the platform may refuse the statement
\* (for instance for lack of privilege)
Provision(cell, kind, name) ==
  /\ Running(cell)
  /\ \/ LET r == CreateIfNotExists(objects, kind, name)
        IN  IF r.raised
            THEN Abort("already_exists") /\ UNCHANGED objects
            ELSE objects' = r.objs /\ Proceed
     \/ Abort("platform") /\ UNCHANGED objects
  /\ UNCHANGED <<tags, username, heap, gens, files, run, row>>

CreateCatalog == Provision("catalog", "CATALOG", CatalogName(username[1]))
CreateSchema == Provision("schema", "SCHEMA", SchemaName(username[1]))
CreateVolume == Provision("volume", "VOLUME", VolumeName(username[1]))

\* ------------------------------------------------------ define generators

\* the cell binds the six variables to objects of a fresh heap (objects of
\* an earlier run are no longer referenced)
DefineGeneratorsCell ==
  /\ Running("define")
  /\ LET r == DefineGenerators(<<>>)
     IN  heap' = r.h /\ gens' = <<r.ref>>
  /\ Proceed
  /\ UNCHANGED <<tags, username, objects, files, run, row>>

\* --------------------------------------------------------- build and write

VolumePath(u, d) ==
  <<"/Volumes/dlt_workshop_">> \o u \o <<"/finance/_files/", d>>

\* generator.build(): a data frame with the generator's row count and its
\* output columns
Build(g) == [rows |-> g.rowCount, columns |-> OutputColumnNames(g)]

\* .write.format('csv').option('header','true').option('sep',sep)
\* .mode(...).save(path): the directory's content after the save
SaveAppend(fs, path, df, sep, r) ==
  (path :> [rows |-> df.rows + (IF path \in DOMAIN fs THEN fs[path].rows ELSE 0),
            columns |-> df.columns, header |-> TRUE, sep |-> sep, run |-> r])
  @@ fs
SaveOverwrite(fs, path, df, sep, r) ==
  (path :> [rows |-> df.rows, columns |-> df.columns, header |-> TRUE,
            sep |-> sep, run |-> r]) @@ fs

Without(fs, path) == [p \in DOMAIN fs \ {path} |-> fs[p]]

\* a build-and-write cell.  The save needs the volume; it may fail on the
\* platform's side, and a failed overwrite leaves the directory either as it
\* was or already cleared.
BuildAndWrite(cell, sep) ==
  /\ Running(cell)
  /\ LET df == Build(heap[gens[1][cell]])
         path == VolumePath(username[1], cell)
     IN  IF [kind |-> "VOLUME", name |-> VolumeName(username[1])] \notin objects
         THEN Abort("write") /\ UNCHANGED files
         ELSE \/ files' = SaveOverwrite(files, path, df, sep, run) /\ Proceed
              \/ Abort("write") /\ files' \in {files, Without(files, path)}
  /\ UNCHANGED <<tags, username, objects, heap, gens, run, row>>

WriteCustomers == BuildAndWrite("customers", "|")
WriteSuppliersCdc == BuildAndWrite("suppliers_cdc", ",")
WriteItems == BuildAndWrite("items", ",")
WriteOrders == BuildAndWrite("orders", ",")
WriteOrdersNew == BuildAndWrite("orders_new", ",")
WriteOrdersBacklog == BuildAndWrite("orders_backlog", ",")

\* the notebook is run again, in the same session and namespace
Rerun ==
  /\ error # "" \/ pc > Len(Cells)
  /\ run < MaxRuns
  /\ run' = run + 1
  /\ pc' = 1
  /\ executed' = <<>>
  /\ error' = ""
  /\ UNCHANGED <<tags, username, objects, heap, gens, files, row>>

Next ==
  \/ ResolveNamespace
  \/ CreateCatalog
  \/ CreateSchema
  \/ CreateVolume
  \/ DefineGeneratorsCell
  \/ WriteCustomers
  \/ WriteSuppliersCdc
  \/ WriteItems
  \/ WriteOrders
  \/ WriteOrdersNew
  \/ WriteOrdersBacklog
  \/ Rerun

Spec == Init /\ [][Next]_vars

\* ----------------------------------------------------------- SQL functions
\* A column value is [isNull, v]: v is a sequence of characters for text,
\* <<n>> for a number, <<s>> for an enumerated string.

NullV == [isNull |-> TRUE, v |-> <<>>]
V(x) == [isNull |-> FALSE, v |-> x]

\* regexp_replace(x, "[^0-9A-Za-z]", repl)
SqlRegexpReplace(x, repl) == IF x.isNull THEN NullV ELSE V(ReSub(x.v, repl))

\* initcap(x): lower-cases, then upper-cases the first letter of each
\* blank-separated word
SqlInitCap(x) ==
  IF x.isNull THEN NullV
  ELSE V([i \in DOMAIN x.v |-> IF i = 1 \/ x.v[i - 1] = " "
                                THEN ToUpper(x.v[i]) ELSE ToLower(x.v[i])])

\* replace(x, c, ""): removes every occurrence of the character c
SqlReplace(x, c) ==
  IF x.isNull THEN NullV ELSE V(SelectSeq(x.v, LAMBDA y : y # c))

\* concat(a, b): null as soon as one argument is null
SqlConcatSkippingNulls(a, b) ==
  V((IF a.isNull THEN <<>> ELSE a.v) \o (IF b.isNull THEN <<>> ELSE b.v))
SqlConcat(a, b) == IF a.isNull \/ b.isNull THEN NullV ELSE V(a.v \o b.v)

ExampleDomain == <<"@", "e", "x", "a", "m", "p", "l", "e", ".", "c", "o", "m">>

\* concat(replace(initcap(regexp_replace(name, "[^0-9A-Za-z]", " ")), " ", ""),
\*        "@example.com")
EmailExpr(name) ==
  SqlConcat(SqlReplace(SqlInitCap(SqlRegexpReplace(name, " ")), " "),
            V(ExampleDomain))

\* ---------------------------------------------------------- row generation
\* One generated cell at a time: a column's value in some row of a build,
\* together with the value of the column its expression reads.

\* characters of the texts the Faker providers return, and those texts
TextAlphabet == {"a", "B", " ", "-"}
ProviderTexts == SeqsUpTo(TextAlphabet, MaxLen) \ {<<>>}

\* the seed values of a build: startingId .. startingId + rowCount - 1
SeedValues(g) == g.startingId .. (g.startingId + g.rowCount - 1)

\* columns whose values the row model draws (decimal and timestamp ranges
\* are not enumerated)
Enumerated(col) == col.type \in {"long", "integer", "string"}

\* the values a column's rule can produce before null injection
BaseValues(g, col) ==
  IF col.implicit THEN {V(<<i>>) : i \in SeedValues(g)}
  ELSE IF col.values # <<>>
    THEN IF col.random THEN {V(<<x>>) : x \in Range(col.values)}
         ELSE {V(<<col.values[(i % Len(col.values)) + 1]>>) : i \in SeedValues(g)}
  ELSE IF col.text # "" THEN {V(t) : t \in ProviderTexts}
  ELSE {V(<<col.minValue[1] + k * (col.step \div 100)>>) :
          k \in 0 .. ((col.maxValue[1] - col.minValue[1]) \div (col.step \div 100))}

\* percentNulls: the rule's value is replaced by null with that probability
NullChoices(col) == IF col.percentNulls > 0 THEN {FALSE, TRUE} ELSE {FALSE}
NullInject(x, nulled) == IF nulled THEN NullV ELSE x

\* the values of a column in the data frame a later build round reads
ColumnValues(g, col) ==
  {NullInject(x, n) : x \in BaseValues(g, col), n \in NullChoices(col)}

GeneratorOf(d) == heap[gens[1][d]]

\* a cell of a column with a value rule
GenerateColumn ==
  /\ row = NoRow
  /\ \E d \in GeneratorNames :
       \E i \in DOMAIN GeneratorOf(d).allColumnSpecs :
         LET col == GeneratorOf(d).allColumnSpecs[i]
         IN  /\ Enumerated(col)
             /\ col.expr = ""
             /\ \E x \in BaseValues(GeneratorOf(d), col), n \in NullChoices(col) :
                  row' = [dataset |-> d, column |-> col.name, source |-> <<>>,
                          nulled |-> n, value |-> NullInject(x, n)]
  /\ UNCHANGED <<tags, username, objects, heap, gens, files, pc, executed,
                 error, run>>

\* a cell of a column with an expression: the expression is evaluated on
\* the column it names, as that column is in the data frame
GenerateDerivedColumn ==
  /\ row = NoRow
  /\ \E d \in GeneratorNames :
       \E i \in DOMAIN GeneratorOf(d).allColumnSpecs :
         LET col == GeneratorOf(d).allColumnSpecs[i]
         IN  /\ col.expr # ""
             /\ \E s \in ColumnValues(GeneratorOf(d),
                                      ColumnSpec(GeneratorOf(d), col.expr)),
                   n \in NullChoices(col) :
                  row' = [dataset |-> d, column |-> col.name, source |-> <<s>>,
                          nulled |-> n, value |-> NullInject(EmailExpr(s), n)]
  /\ UNCHANGED <<tags, username, objects, heap, gens, files, pc, executed,
                 error, run>>

\* the session right after the generator-definition cell of a first run
InitRow ==
  /\ tags = <<CHOOSE u \in Users : TRUE>>
  /\ username = <<Username(tags[1])>>
  /\ objects = {[kind |-> "CATALOG", name |-> CatalogName(username[1])],
                [kind |-> "SCHEMA", name |-> SchemaName(username[1])],
                [kind |-> "VOLUME", name |-> VolumeName(username[1])]}
  /\ heap = DefineGenerators(<<>>).h
  /\ gens = <<DefineGenerators(<<>>).ref>>
  /\ files = <<>>
  /\ pc = 6
  /\ executed = SubSeq(Cells, 1, 5)
  /\ error = ""
  /\ run = 1
  /\ row = NoRow

NextRow == GenerateColumn \/ GenerateDerivedColumn

SpecRow == InitRow /\ [][NextRow]_vars

\* ------------------------------------------------- resolver on any identity

InitResolve ==
  /\ tags \in {<<u>> : u \in SeqsUpTo(Alphabet, MaxLen)}
  /\ username = <<>>
  /\ objects = {}
  /\ heap = <<>>
  /\ gens = <<>>
  /\ files = <<>>
  /\ pc = 1
  /\ executed = <<>>
  /\ error = ""
  /\ run = 1
  /\ row = NoRow

NextResolve == ResolveNamespace

SpecResolve == InitResolve /\ [][NextResolve]_vars

\* ----------------------------------------------------------------- claims

PathOf(d) == VolumePath(username[1], d)
Written(d) == username # <<>> /\ PathOf(d) \in DOMAIN files
Finished == pc > Len(Cells)

\* the row counts the six datasets are configured with
ConfiguredRows ==
  [customers |-> 100, suppliers_cdc |-> 20, items |-> 1000, orders |-> 10000,
   orders_new |-> 1000, orders_backlog |-> 100000]

\* C1: every dataset that has been written holds exactly its configured
\* number of rows (customers 100, suppliers_cdc 20, items 1000, orders
\* 10000, orders_new 1000, orders_backlog 100000).
C1_ConfiguredRowCounts ==
  \A d \in GeneratorNames : Written(d) => files[PathOf(d)].rows = ConfiguredRows[d]

\* C2: the resolved username has the length of the identity, keeps every
\* character of 0-9a-zA-Z where it is, has "_" at every other position and
\* so contains only characters of 0-9a-zA-Z_.
C2_UsernameSanitized ==
  (tags # <<>> /\ username # <<>>) =>
    LET s == tags[1]
        u == username[1]
    IN  /\ Len(u) = Len(s)
        /\ \A i \in DOMAIN s :
             /\ u[i] \in AlnumClass \cup {"_"}
             /\ (s[i] \in AlnumClass => u[i] = s[i])
             /\ (s[i] \notin AlnumClass => u[i] = "_")

\* an identity with two adjacent replaced characters followed by a kept one
C2_Witness ==
  /\ username # <<>>
  /\ Len(tags[1]) >= 3
  /\ tags[1][1] = "." /\ tags[1][2] = "@" /\ tags[1][3] = "Z"

OtherOrderColumns == {"id", "description", "customer_id", "item_id",
                      "qty_ordered", "business_unit"}

\* C3: once the generators are defined, the backlog spec has the columns of
\* the base orders spec in the same order, exactly one order_date column,
\* the same rule for every other column, and differs from the base only in
\* the row count (100000 against 10000) and the order_date range
\* (2000-01-01..2020-01-01 against 2020-01-01..2024-01-01).
C3_BacklogDiffersOnlyInCountAndDates ==
  gens # <<>> =>
    LET base == GeneratorOf("orders")
        bl == GeneratorOf("orders_backlog")
    IN  /\ OutputColumnNames(bl) = OutputColumnNames(base)
        /\ Cardinality({i \in DOMAIN bl.inferredSchemaFields :
                          bl.inferredSchemaFields[i] = "order_date"}) = 1
        /\ \A n \in OtherOrderColumns : ColumnSpec(bl, n) = ColumnSpec(base, n)
        /\ bl.rowCount = 100000
        /\ base.rowCount = 10000
        /\ ColumnSpec(bl, "order_date").minValue = <<Timestamp(2000, 1, 1, 0, 0, 0)>>
        /\ ColumnSpec(bl, "order_date").maxValue = <<Timestamp(2020, 1, 1, 0, 0, 0)>>
        /\ ColumnSpec(base, "order_date").minValue = <<Timestamp(2020, 1, 1, 0, 0, 0)>>
        /\ ColumnSpec(base, "order_date").maxValue = <<Timestamp(2024, 1, 1, 0, 0, 0)>>

\* C4: running the notebook again never fails because an object exists and
\* never appends: a dataset directory always holds the rows of one build of
\* its generator, and after a completed run every directory holds that
\* run's output.
C4_RerunOverwrites ==
  /\ error # "already_exists"
  /\ \A d \in GeneratorNames :
       Written(d) => files[PathOf(d)].rows = Build(GeneratorOf(d)).rows
  /\ (Finished =>
        \A d \in GeneratorNames : Written(d) /\ files[PathOf(d)].run = run)

\* a second run has completed over the objects and files of the first
C4_Witness == run >= 2 /\ Finished /\ error = ""

\* C5: when the context has no user entry the run stops at the namespace
\* cell: no username is bound, no cell completes, nothing is created and
\* nothing is written.
C5_NoIdentityFailsFast ==
  tags = <<>> =>
    /\ username = <<>>
    /\ executed = <<>>
    /\ pc = 1
    /\ error \in {"", "identity"}
    /\ objects = {}
    /\ DOMAIN files = {}

\* the namespace cell has raised for lack of a user entry
C5_Witness == tags = <<>> /\ error = "identity"

\* C7 as stated: whenever null injection on email does not fire, the email
\* is non-null, whether or not the name was nulled.
C7_EmailFromUnnulledName ==
  (row.column = "email" /\ ~row.nulled) => ~row.value.isNull

\* C7 as the code has it: the email is null exactly when its own null
\* injection fires or the name it reads is null; otherwise it is the
\* expression of the name in the row and ends with @example.com.
C7_EmailFromNulledName ==
  row.column = "email" =>
    /\ row.value.isNull <=> (row.nulled \/ row.source[1].isNull)
    /\ ~row.value.isNull =>
         /\ row.value = EmailExpr(row.source[1])
         /\ Len(row.value.v) >= Len(ExampleDomain)
         /\ SubSeq(row.value.v, Len(row.value.v) - Len(ExampleDomain) + 1,
                   Len(row.value.v)) = ExampleDomain
         /\ \A i \in 1 .. (Len(row.value.v) - Len(ExampleDomain)) :
              row.value.v[i] \in AlnumClass

\* an email cell whose name was nulled and whose own null injection did not
\* fire
C7_Witness ==
  row.column = "email" /\ row.source[1].isNull /\ ~row.nulled

SameExceptAt(f, g, p) ==
  \A q \in (DOMAIN f \cup DOMAIN g) \ {p} :
    q \in DOMAIN f /\ q \in DOMAIN g /\ f[q] = g[q]

\* C8: the cells complete in notebook order; a dataset is written only
\* after the volume cell of the run completed; once a cell has raised
\* nothing more happens in that run; and a raising cell leaves the objects
\* and the other datasets' files as they were.
C8_FixedOrderFailStop ==
  [][ /\ \A i \in DOMAIN executed' : executed'[i] = Cells[i]
      /\ (executed' # executed =>
            \/ run' = run + 1 /\ executed' = <<>>
            \/ /\ run' = run
               /\ Len(executed) < Len(Cells)
               /\ executed' = Append(executed, Cells[Len(executed) + 1]))
      /\ (files' # files =>
            /\ Len(executed) >= 5
            /\ [kind |-> "VOLUME", name |-> VolumeName(username[1])] \in objects
            /\ SameExceptAt(files, files', PathOf(Cells[pc])))
      /\ (error # "" /\ run' = run => UNCHANGED vars)
      /\ (error = "" /\ error' # "" =>
            /\ objects' = objects
            /\ executed' = executed
            /\ pc' = pc)
    ]_vars

\* a write raised after two datasets had been written
C8_Witness == error = "write" /\ Len(executed) >= 7

\* C9: the backlog variable references an object of its own, and when the
\* orders cell builds, the object orders_generator references is still the
\* spec of its definition (10000 rows, order_date 2020-01-01..2024-01-01,
\* seven columns).
C9_BaseSpecUnchanged ==
  gens # <<>> =>
    /\ gens[1]["orders"] # gens[1]["orders_backlog"]
    /\ LET o == orders_generator(<<>>)
       IN  GeneratorOf("orders") = o.h[o.ref]

\* C10: every customer_id an orders dataset can hold is an id of the
\* customers dataset, every item_id is an id of the items dataset, and
\* every suppliers_cdc id lies in 1..100.
C10_ForeignKeysResolve ==
  /\ (row.dataset \in {"orders", "orders_new", "orders_backlog"}
        /\ row.column = "customer_id") =>
       row.value \in ColumnValues(GeneratorOf("customers"),
                                  ColumnSpec(GeneratorOf("customers"), "id"))
  /\ (row.dataset \in {"orders", "orders_new", "orders_backlog"}
        /\ row.column = "item_id") =>
       row.value \in ColumnValues(GeneratorOf("items"),
                                  ColumnSpec(GeneratorOf("items"), "id"))
  /\ (row.dataset = "suppliers_cdc" /\ row.column = "id") =>
       (~row.value.isNull /\ row.value.v[1] \in 1..100)

====
